---- MODULE Spec2Model ----
(***************************************************************************)
(* Model of catastro_mcp.py: the three tool operations                     *)
(* buscar_inmueble_inteligente, listar_numeros_via and                     *)
(* consulta_datos_catastro, one call at a time.  A call is cut at its HTTP *)
(* round trips: the upstream service's answer is the environment's choice. *)
(*                                                                         *)
(* Python values:                                                          *)
(*   - an optional opaque str argument is a string, None the Python None;  *)
(*   - a text that the code parses or searches is a sequence: of one-char  *)
(*     strings for a number text, of words for an error description;       *)
(*   - an XML element is [present, hasText, text]: find() returned None    *)
(*     (present = FALSE), or an element whose .text is None or a text;     *)
(*   - a value that may be None at run time is [none, t];                  *)
(*   - a dict is a record with exactly the keys the code sets.             *)
(***************************************************************************)
EXTENDS Integers, Sequences, FiniteSets, TLC

\* ---------------------------------------------------------------- bounds
\* street numbers 0..MaxNum occur in the generated inputs and responses
MaxNum == 3
\* longest generated ConsultaNumero response (two fixed longer ones are added)
MaxNump == 2
\* buscar_numero_cercano: the longest list and the largest number given to it
MaxLista == 3
MaxValor == 4

\* numeros_disponibles[:5]
MaxOtros == 5

\* ---------------------------------------------------------- Python values
None == "None"
Truthy(s) == s # None /\ s # ""

PyNone == [none |-> TRUE, t |-> <<>>]
PyStr(s) == [none |-> FALSE, t |-> s]

Absent == [present |-> FALSE, hasText |-> FALSE, text |-> <<>>]
NoText == [present |-> TRUE, hasText |-> FALSE, text |-> <<>>]
Elem(s) == [present |-> TRUE, hasText |-> TRUE, text |-> s]
\* element.text
ElemText(e) == IF e.hasText THEN PyStr(e.text) ELSE PyNone
\* (element.text or "")
TextOrEmpty(e) == IF e.hasText THEN e.text ELSE <<>>

Abs(x) == IF x < 0 THEN -x ELSE x

\* ------------------------------------------------------- int() and str()
DigitChars == <<"0", "1", "2", "3", "4", "5", "6", "7", "8", "9">>
IsDigit(c) == \E i \in 1..10 : DigitChars[i] = c
DigitVal(c) == (CHOOSE i \in 1..10 : DigitChars[i] = c) - 1

RECURSIVE LStrip(_)
LStrip(s) == IF s # <<>> /\ s[1] = " " THEN LStrip(Tail(s)) ELSE s
RECURSIVE RStrip(_)
RStrip(s) ==
    IF s # <<>> /\ s[Len(s)] = " " THEN RStrip(SubSeq(s, 1, Len(s) - 1)) ELSE s
Strip(s) == RStrip(LStrip(s))

Unsigned(s) ==
    LET b == Strip(s) IN IF b # <<>> /\ b[1] \in {"-", "+"} THEN Tail(b) ELSE b
RECURSIVE DigitsVal(_)
DigitsVal(s) ==
    IF s = <<>> THEN 0
    ELSE DigitsVal(SubSeq(s, 1, Len(s) - 1)) * 10 + DigitVal(s[Len(s)])

\* int(s) does not raise ValueError
IntParses(s) ==
    /\ Unsigned(s) # <<>>
    /\ \A i \in 1..Len(Unsigned(s)) : IsDigit(Unsigned(s)[i])
\* int(s), for a text that parses
IntVal(s) ==
    LET b == Strip(s) IN
    IF b[1] = "-" THEN 0 - DigitsVal(Unsigned(s)) ELSE DigitsVal(Unsigned(s))

RECURSIVE StrNat(_)
StrNat(n) ==
    IF n < 10 THEN <<DigitChars[n + 1]>>
    ELSE StrNat(n \div 10) \o <<DigitChars[(n % 10) + 1]>>
\* str(n)
Str(n) == IF n < 0 THEN <<"-">> \o StrNat(0 - n) ELSE StrNat(n)

\* ------------------------------------------------- str.upper() and "in"
\* Words of the service's error descriptions.  "NU'MERO" stands for the word
\* written with U+00DA, "nu'mero" for its lower-case form; "NA~sMERO" stands
\* for the mojibake literal of consulta_datos_catastro, whose third character
\* U+0161 is a LOWER-case letter (upper() turns it into U+0160, "NA~SMERO");
\* "VI'A" stands for the word written with U+00CD;
\* "VA~A" stands for the two-letter mojibake literal V, U+00C3, A.
UpperWord(w) ==
    CASE w = "el" -> "EL"
      [] w = "numero" -> "NUMERO"
      [] w = "nu'mero" -> "NU'MERO"
      [] w = "NA~sMERO" -> "NA~SMERO"
      [] w = "no" -> "NO"
      [] w = "existe" -> "EXISTE"
      [] w = "via" -> "VIA"
      [] OTHER -> w
Upper(s) == [i \in 1..Len(s) |-> UpperWord(s[i])]
\* phrase in s
Contains(s, phrase) ==
    \E i \in 0..(Len(s) - Len(phrase)) :
        \A j \in 1..Len(phrase) : s[i + j] = phrase[j]

NUMERO_NO_EXISTE == <<"NUMERO", "NO", "EXISTE">>
NUMERO_ACENTO_NO_EXISTE == <<"NU'MERO", "NO", "EXISTE">>
NUMERO_MOJIBAKE_NO_EXISTE == <<"NA~sMERO", "NO", "EXISTE">>
VIA_NO_EXISTE == <<"VIA", "NO", "EXISTE">>
VIA_MOJIBAKE_NO_EXISTE == <<"VA~A", "NO", "EXISTE">>
PROVINCIA_NO_EXISTE == <<"PROVINCIA", "NO", "EXISTE">>
MUNICIPIO_NO_EXISTE == <<"MUNICIPIO", "NO", "EXISTE">>

\* ------------------------------------------------------- XML documents
\* The parsed response: the parts of the tree the code looks at.
\*   err     .//lerr/err, with its cod and des children
\*   bico    "none": no bico; "nobi": a bico without bi; "bi": bico with bi
\*   lrcdnp  -1: no lrcdnp; n >= 0: an lrcdnp with n rcdnp children
\*   numps   the nump elements, in document order: [pnp, pc1, pc2]
\*   calles  the calle elements, in document order: [cv, tv, nv]
\*   provs   the prov elements: [cpine, np]
\*   munis   the muni elements: [nm, cmc, cm]
\*   bi      the bi element of the bico, when bico = "bi" (see BiCompleto)
\* A bi element: what each find() of parse_inmueble_completo returns.
\*   rc    [present, pc1, pc2, car, cc1, cc2]
\*   cn, ldt
\*   dt    [present, np, nm, nv, tv, pnp, bq, es, pt, pu]
\*   debi  [present, luso, sfc, cpt, ant]
\*   lcons [present, cons], cons a sequence of [lcd, stl, dtip, loint]
\*   lspr  [present, spr], spr a sequence of [cspr, ccc, dcc, ip, ssp]
\* The texts of sfc, cpt, ant, stl and ssp are sequences of characters.
SinLocalizacion == [present |-> FALSE, bq |-> Absent, es |-> Absent, pt |-> Absent, pu |-> Absent]
Cons(stl) ==
    [lcd |-> Elem(<<"VIVIENDA">>), stl |-> stl, dtip |-> Absent,
     loint |-> [present |-> TRUE, bq |-> Absent, es |-> Elem(<<"1">>),
                pt |-> Elem(<<"02">>), pu |-> NoText]]
ConsVacia == [lcd |-> Absent, stl |-> NoText, dtip |-> Absent, loint |-> SinLocalizacion]
Spr(ssp) ==
    [cspr |-> Elem(<<"a">>), ccc |-> Elem(<<"O-">>), dcc |-> Elem(<<"OLIVOS">>),
     ip |-> Absent, ssp |-> ssp]
BiVacio ==
    [rc |-> [present |-> FALSE, pc1 |-> Absent, pc2 |-> Absent, car |-> Absent,
             cc1 |-> Absent, cc2 |-> Absent],
     cn |-> Absent, ldt |-> Absent,
     dt |-> [present |-> FALSE, np |-> Absent, nm |-> Absent, nv |-> Absent, tv |-> Absent,
             pnp |-> Absent, bq |-> Absent, es |-> Absent, pt |-> Absent, pu |-> Absent],
     debi |-> [present |-> FALSE, luso |-> Absent, sfc |-> Absent, cpt |-> Absent,
               ant |-> Absent],
     lcons |-> [present |-> FALSE, cons |-> <<>>],
     lspr |-> [present |-> FALSE, spr |-> <<>>]]
BiCompleto ==
    [rc |-> [present |-> TRUE, pc1 |-> Elem(<<"1234567">>), pc2 |-> Elem(<<"89">>),
             car |-> Elem(<<"0001">>), cc1 |-> Elem(<<"A">>), cc2 |-> Elem(<<"B">>)],
     cn |-> Elem(<<"UR">>), ldt |-> Elem(<<"CL", "ALCALA", "5", "MADRID">>),
     dt |-> [present |-> TRUE, np |-> Elem(<<"MADRID">>), nm |-> Elem(<<"MADRID">>),
             nv |-> Elem(<<"ALCALA">>), tv |-> Elem(<<"CL">>), pnp |-> Elem(<<"5">>),
             bq |-> Absent, es |-> Elem(<<"1">>), pt |-> NoText, pu |-> Absent],
     debi |-> [present |-> TRUE, luso |-> Elem(<<"Residencial">>),
               sfc |-> Elem(<<"4", "5", ",", "5">>), cpt |-> Elem(<<"1", "2", ",", "5", "0">>),
               ant |-> Elem(<<"1", "9", "9", "0">>)],
     lcons |-> [present |-> TRUE, cons |-> <<Cons(Elem(<<"3", "0">>)), ConsVacia>>],
     lspr |-> [present |-> TRUE, spr |-> <<Spr(Elem(<<"1", "0", "0", ",", "2", "5">>))>>]]
\* texts of a numeric field: none, well formed, and malformed ones
NumericElems ==
    {Absent, NoText, Elem(<<"7">>), Elem(<<"7", ",", "5">>), Elem(<<"a", "b", "c">>),
     Elem(<<"1", ".", "2", ",", "5">>), Elem(<<" ">>)}
\* the parts of a cadastral reference: missing, without text, or a text
ParteElems(t) == {Absent, NoText, Elem(<<t>>)}
\* bi elements: BiCompleto with its reference or one numeric field varied
BiRecords ==
    {BiVacio, BiCompleto}
    \cup {[BiCompleto EXCEPT !.rc.pc1 = p1, !.rc.pc2 = p2, !.rc.car = c] :
            p1 \in ParteElems("1234567"), p2 \in ParteElems("89"), c \in ParteElems("0001")}
    \cup {[BiCompleto EXCEPT !.rc.cc1 = c1, !.rc.cc2 = c2] :
            c1 \in ParteElems("A"), c2 \in ParteElems("B")}
    \cup {[BiCompleto EXCEPT !.debi.sfc = e] : e \in NumericElems}
    \cup {[BiCompleto EXCEPT !.debi.cpt = e] : e \in NumericElems}
    \cup {[BiCompleto EXCEPT !.debi.ant = e] : e \in NumericElems}
    \cup {[BiCompleto EXCEPT !.lcons.cons = <<Cons(e)>>] : e \in NumericElems}
    \cup {[BiCompleto EXCEPT !.lspr.spr = <<Spr(e)>>] : e \in NumericElems}

NoErr == [present |-> FALSE, cod |-> Absent, des |-> Absent]
Err(cod, des) == [present |-> TRUE, cod |-> cod, des |-> des]
EmptyDoc ==
    [err |-> NoErr, bico |-> "none", lrcdnp |-> -1, numps |-> <<>>,
     calles |-> <<>>, provs |-> <<>>, munis |-> <<>>, bi |-> BiVacio]

\* nump elements
NumpRef(n) == [pnp |-> Elem(Str(n)), pc1 |-> Elem(<<"A">>), pc2 |-> Elem(<<"B">>)]
NumpSinRef(n) == [pnp |-> Elem(Str(n)), pc1 |-> Elem(<<"A">>), pc2 |-> Absent]
NumpLetra == [pnp |-> Elem(<<"2", "B">>), pc1 |-> Elem(<<"A">>), pc2 |-> Elem(<<"B">>)]
NumpVacio == [pnp |-> NoText, pc1 |-> Elem(<<"A">>), pc2 |-> NoText]
NumpKinds == {NumpRef(n) : n \in 0..MaxNum} \cup {NumpSinRef(1), NumpLetra}

RECURSIVE SeqsUpTo(_, _)
SeqsUpTo(S, n) ==
    IF n = 0 THEN {<<>>}
    ELSE LET shorter == SeqsUpTo(S, n - 1) IN
         shorter \cup {Append(s, x) : s \in {t \in shorter : Len(t) = n - 1}, x \in S}

\* the street of scenario B, and a street with more than MaxOtros numbers
EscenarioB == <<NumpRef(3), NumpRef(5), NumpRef(9), NumpRef(12)>>
CalleLarga ==
    <<NumpRef(12), NumpRef(3), NumpRef(9), NumpRef(5), NumpRef(14), NumpRef(1), NumpRef(7)>>
NumpLists ==
    SeqsUpTo(NumpKinds, MaxNump) \cup {EscenarioB, CalleLarga, <<NumpVacio, NumpRef(2)>>}

\* calle, prov and muni elements
Calle == [cv |-> Elem(<<"7">>), tv |-> Elem(<<"CL">>), nv |-> Elem(<<"ALCALA">>)]
CalleSinCodigo == [cv |-> Absent, tv |-> Absent, nv |-> Elem(<<"ALCALA">>)]
CalleSinNombre == [cv |-> Elem(<<"7">>), tv |-> Elem(<<"CL">>), nv |-> Absent]
CalleLists == {<<>>, <<Calle>>, <<CalleSinCodigo, Calle>>, <<CalleSinNombre>>}
Prov == [cpine |-> Elem(<<"2", "8">>), np |-> Elem(<<"MADRID">>)]
ProvSinNombre == [cpine |-> Elem(<<"2", "8">>), np |-> Absent]
Muni == [nm |-> Elem(<<"MADRID">>), cmc |-> Elem(<<"9", "0", "0">>), cm |-> Absent]
MuniSinNombre == [nm |-> Absent, cmc |-> Elem(<<"9", "0", "0">>), cm |-> Elem(<<"7", "9">>)]

\* error descriptions the service may send
DesTexts ==
    { <<"EL", "NUMERO", "NO", "EXISTE">>,
      <<"el", "numero", "no", "existe">>,
      <<"EL", "NU'MERO", "NO", "EXISTE">>,
      <<"EL", "NA~sMERO", "NO", "EXISTE">>,
      <<"LA", "VIA", "NO", "EXISTE">>,
      <<"LA", "PROVINCIA", "NO", "EXISTE">>,
      <<"EL", "MUNICIPIO", "NO", "EXISTE">>,
      <<"OTRO", "ERROR">> }
ErrElems ==
    {Err(Elem(<<"4", "3">>), d) : d \in {Elem(t) : t \in DesTexts} \cup {Absent, NoText}}
    \cup {Err(Absent, Elem(<<"OTRO", "ERROR">>)), Err(NoText, Elem(<<"OTRO", "ERROR">>))}

ErrDocs == {[EmptyDoc EXCEPT !.err = e] : e \in ErrElems}
\* what a record lookup (Consulta_DNPLOC, _Codigos, Consulta_DNPRC) may answer
RecordDocs ==
    {[EmptyDoc EXCEPT !.bico = "bi", !.bi = b] : b \in BiRecords} \cup
    { EmptyDoc,
      [EmptyDoc EXCEPT !.bico = "nobi"],
      [EmptyDoc EXCEPT !.bico = "nobi", !.lrcdnp = 1],
      [EmptyDoc EXCEPT !.lrcdnp = 0],
      [EmptyDoc EXCEPT !.lrcdnp = 2],
      [EmptyDoc EXCEPT !.err = Err(Elem(<<"4", "3">>), Elem(<<"OTRO", "ERROR">>)),
                       !.bico = "bi", !.bi = BiCompleto] }
    \cup ErrDocs
\* what ConsultaNumero may answer
NumeroDocs ==
    {[EmptyDoc EXCEPT !.numps = l] : l \in NumpLists}
    \cup {[EmptyDoc EXCEPT !.err = Err(Elem(<<"4", "3">>), Elem(<<"LA", "VIA", "NO", "EXISTE">>))]}
\* what ConsultaVia may answer
ViaDocs == {[EmptyDoc EXCEPT !.calles = l] : l \in CalleLists} \cup ErrDocs
\* error answers that carry candidate elements
ErrDe(words) == Err(Elem(<<"4", "3">>), Elem(words))
CandidatosDocs ==
    { [EmptyDoc EXCEPT !.err = ErrDe(<<"LA", "PROVINCIA", "NO", "EXISTE">>), !.provs = <<Prov>>],
      [EmptyDoc EXCEPT !.err = ErrDe(<<"LA", "PROVINCIA", "NO", "EXISTE">>),
                       !.provs = <<ProvSinNombre>>, !.munis = <<Muni>>],
      [EmptyDoc EXCEPT !.err = ErrDe(<<"EL", "MUNICIPIO", "NO", "EXISTE">>),
                       !.munis = <<MuniSinNombre, Muni>>],
      [EmptyDoc EXCEPT !.err = ErrDe(<<"LA", "VIA", "NO", "EXISTE">>),
                       !.calles = <<CalleSinCodigo, Calle>>],
      [EmptyDoc EXCEPT !.err = ErrDe(<<"EL", "NUMERO", "NO", "EXISTE">>), !.numps = EscenarioB],
      [EmptyDoc EXCEPT !.err = ErrDe(<<"EL", "NA~sMERO", "NO", "EXISTE">>), !.numps = EscenarioB],
      [EmptyDoc EXCEPT !.err = ErrDe(<<"EL", "NU'MERO", "NO", "EXISTE">>), !.numps = EscenarioB],
      [EmptyDoc EXCEPT !.err = ErrDe(<<"LA", "VI'A", "NO", "EXISTE">>), !.calles = <<Calle>>],
      [EmptyDoc EXCEPT !.err = ErrDe(<<"LA", "PROVINCIA", "NO", "EXISTE", "EL", "MUNICIPIO",
                                       "NO", "EXISTE">>),
                       !.provs = <<Prov>>, !.munis = <<Muni>>],
      [EmptyDoc EXCEPT !.err = ErrDe(<<"OTRO", "ERROR">>), !.provs = <<Prov>>] }

\* An HTTP exchange: the transport fails (timeout, connection error), the
\* service answers with a non-2xx status and some body, or it answers 2xx
\* with a body that is malformed or parses to a document.
Timeout == [kind |-> "timeout", doc |-> EmptyDoc]
Malformed == [kind |-> "malformed", doc |-> EmptyDoc]
Status(d) == [kind |-> "status", doc |-> d]
Ok(d) == [kind |-> "ok", doc |-> d]
NumeroNoExisteDoc ==
    [EmptyDoc EXCEPT !.err = Err(Elem(<<"4", "3">>), Elem(<<"EL", "NUMERO", "NO", "EXISTE">>))]
Failures ==
    {Timeout, Malformed, Status(EmptyDoc), Status(NumeroNoExisteDoc),
     Status([EmptyDoc EXCEPT !.numps = EscenarioB]),
     Status([EmptyDoc EXCEPT !.bico = "bi", !.bi = BiCompleto])}
RecordResponses == Failures \cup {Ok(d) : d \in RecordDocs \cup CandidatosDocs}
\* the first lookup of buscar_inmueble_inteligente, which reads no candidates
LookupResponses == Failures \cup {Ok(d) : d \in RecordDocs}
\* what the re-lookup of the nearest number may answer
CercanoDocs ==
    { EmptyDoc,
      [EmptyDoc EXCEPT !.bico = "bi", !.bi = BiCompleto],
      [EmptyDoc EXCEPT !.bico = "bi", !.bi = [BiCompleto EXCEPT !.debi.ant = Elem(<<"a", "b", "c">>)]],
      [EmptyDoc EXCEPT !.bico = "nobi", !.lrcdnp = 1],
      [EmptyDoc EXCEPT !.lrcdnp = 2],
      NumeroNoExisteDoc,
      [EmptyDoc EXCEPT !.err = ErrDe(<<"LA", "VIA", "NO", "EXISTE">>)],
      [EmptyDoc EXCEPT !.err = Err(NoText, NoText)] }
CercanoResponses ==
    {Timeout, Malformed, Status(NumeroNoExisteDoc)} \cup {Ok(d) : d \in CercanoDocs}
NumeroResponses == Failures \cup {Ok(d) : d \in NumeroDocs}
ViaResponses == Failures \cup {Ok(d) : d \in ViaDocs}

\* ------------------------------------------------------------ helpers
\* a dict entry that is set only when the argument is truthy
Opt(key, val) == IF Truthy(val) THEN [k \in {key} |-> val] ELSE [k \in {} |-> val]

\* the same without the call of response.raise_for_status()
RaisesHTTP_SinStatus(resp) == resp.kind = "timeout"
\* client.get(...) or response.raise_for_status() raises httpx.HTTPError
RaisesHTTP(resp) == resp.kind \in {"timeout", "status"}
\* ET.fromstring raises ParseError
RaisesParse(resp) == resp.kind = "malformed"

Pending == [pending |-> TRUE]
NoneInfo == [none |-> TRUE]
Request(endpoint, params) == [endpoint |-> endpoint, params |-> params]
\* the outcome of one stretch of a call: it returns, or it sends a request
Return(r) == [pc |-> "done", req |-> <<>>, result |-> r, numeros |-> <<>>]
Send(pcn, rq, nums) == [pc |-> pcn, req |-> <<rq>>, result |-> Pending, numeros |-> nums]
\* ... or it raises an exception of class exc whose str() is e
Raise(exc, e) ==
    [pc |-> "raise", req |-> <<>>, result |-> Pending, numeros |-> <<>>, exc |-> exc, e |-> e]
\* the exception of client.get, raise_for_status or ET.fromstring, if any
RaiseDe(resp) ==
    IF RaisesHTTP(resp) THEN Raise("HTTPError", "HTTPError") ELSE Raise("ParseError", "ParseError")

parse_xml_error(root) ==
    IF root.err.present
    THEN [error |-> TRUE,
          codigo |-> IF root.err.cod.present THEN ElemText(root.err.cod)
                     ELSE PyStr(<<"UNKNOWN">>),
          descripcion |-> IF root.err.des.present THEN ElemText(root.err.des)
                          ELSE PyStr(<<"Error", "desconocido">>)]
    ELSE NoneInfo

\* ------------------------------------------------ parse_inmueble_completo
\* a dict entry that is set only under a condition
OptIf(cond, key, val) == IF cond THEN [k \in {key} |-> val] ELSE [k \in {} |-> val]
NoKeys == [k \in {} |-> PyNone]
\* "element is not None and element.text"
HasText(e) == e.present /\ e.hasText /\ e.text # <<>>
\* "element.text if element is not None else None"
TextOrNone(e) == IF e.present THEN ElemText(e) ELSE PyNone

\* text.replace(',', '.')
ReplaceComma(s) == [i \in 1..Len(s) |-> IF s[i] = "," THEN "." ELSE s[i]]
Dots(s) == {i \in 1..Len(s) : s[i] = "."}
\* float(s) does not raise ValueError, for texts of digits, sign, dot and
\* letters (exponents, "inf" and "nan" are not among the modelled texts)
FloatParses(s) ==
    LET b == Unsigned(s) IN
    /\ Cardinality(Dots(b)) <= 1
    /\ \E i \in 1..Len(b) : IsDigit(b[i])
    /\ \A i \in 1..Len(b) : IsDigit(b[i]) \/ b[i] = "."
RECURSIVE SinCerosFinales(_)
SinCerosFinales(s) ==
    IF s # <<>> /\ s[Len(s)] = "0" THEN SinCerosFinales(SubSeq(s, 1, Len(s) - 1)) ELSE s
\* float(s), for a text that parses: sign, integer part, decimal digits
FloatVal(s) ==
    LET b == Unsigned(s)
        dot == IF Dots(b) = {} THEN Len(b) + 1 ELSE CHOOSE i \in Dots(b) : TRUE
    IN [none |-> FALSE,
        negativo |-> Strip(s)[1] = "-",
        entero |-> DigitsVal(SubSeq(b, 1, dot - 1)),
        decimales |-> SinCerosFinales(SubSeq(b, dot + 1, Len(b)))]
\* try: float(text.replace(',', '.')) except ValueError: None
FloatOrNone(text) ==
    IF FloatParses(ReplaceComma(text)) THEN FloatVal(ReplaceComma(text)) ELSE PyNone
PyInt(n) == [none |-> FALSE, n |-> n]

\* lines 84-92
ReferenciaCompleta(rc) ==
    IF rc.pc1.present /\ rc.pc2.present
    THEN TextOrEmpty(rc.pc1) \o TextOrEmpty(rc.pc2)
         \o (IF HasText(rc.car) THEN rc.car.text ELSE <<>>)
         \o (IF HasText(rc.cc1) THEN rc.cc1.text ELSE <<>>)
         \o (IF HasText(rc.cc2) THEN rc.cc2.text ELSE <<>>)
    ELSE <<>>

\* lines 110-118: " ".join of the parts that have a text, or None
Direccion(dt) ==
    LET partes == (IF HasText(dt.tv) THEN dt.tv.text ELSE <<>>)
                  \o (IF HasText(dt.nv) THEN dt.nv.text ELSE <<>>)
                  \o (IF HasText(dt.pnp) THEN dt.pnp.text ELSE <<>>)
    IN IF partes # <<>> THEN PyStr(partes) ELSE PyNone
\* bloque, escalera, planta, puerta
Localizacion(e) ==
    [bloque |-> TextOrNone(e.bq), escalera |-> TextOrNone(e.es),
     planta |-> TextOrNone(e.pt), puerta |-> TextOrNone(e.pu)]

\* lines 171-203: one cons element, and the list of those that are not empty
Unidad(cons) ==
    OptIf(cons.lcd.present, "uso", ElemText(cons.lcd))
    @@ OptIf(HasText(cons.stl), "superficie_m2", FloatOrNone(cons.stl.text))
    @@ OptIf(cons.dtip.present, "tipologia", ElemText(cons.dtip))
    @@ OptIf(cons.loint.present, "localizacion", Localizacion(cons.loint))
RECURSIVE Unidades(_)
Unidades(l) ==
    IF l = <<>> THEN <<>>
    ELSE Unidades(SubSeq(l, 1, Len(l) - 1))
         \o (IF DOMAIN Unidad(l[Len(l)]) # {} THEN <<Unidad(l[Len(l)])>> ELSE <<>>)
\* lines 212-235
Subparcela(spr) ==
    OptIf(spr.cspr.present, "codigo", ElemText(spr.cspr))
    @@ OptIf(spr.ccc.present, "calificacion", ElemText(spr.ccc))
    @@ OptIf(spr.dcc.present, "cultivo", ElemText(spr.dcc))
    @@ OptIf(spr.ip.present, "intensidad_productiva", ElemText(spr.ip))
    @@ OptIf(HasText(spr.ssp), "superficie_m2", FloatOrNone(spr.ssp.text))
RECURSIVE Subparcelas(_)
Subparcelas(l) ==
    IF l = <<>> THEN <<>>
    ELSE Subparcelas(SubSeq(l, 1, Len(l) - 1))
         \o (IF DOMAIN Subparcela(l[Len(l)]) # {} THEN <<Subparcela(l[Len(l)])>> ELSE <<>>)

\* line 165: int(ant.text) raises ValueError
AntiguedadRaises(bi) ==
    bi.debi.present /\ HasText(bi.debi.ant) /\ ~IntParses(bi.debi.ant.text)

\* the dict that parse_inmueble_completo returns, when it returns
parse_inmueble_completo(bi) ==
    OptIf(bi.rc.present, "referencia_catastral", ReferenciaCompleta(bi.rc))
    @@ OptIf(bi.cn.present, "tipo", ElemText(bi.cn))
    @@ (IF bi.dt.present
        THEN [direccion |-> Direccion(bi.dt), provincia |-> TextOrNone(bi.dt.np),
              municipio |-> TextOrNone(bi.dt.nm)]
             @@ OptIf(\E x \in {bi.dt.bq, bi.dt.es, bi.dt.pt, bi.dt.pu} : HasText(x),
                      "localizacion_interna", Localizacion(bi.dt))
        ELSE NoKeys)
    @@ OptIf(HasText(bi.ldt), "domicilio_completo", ElemText(bi.ldt))
    @@ (IF bi.debi.present
        THEN [uso |-> TextOrNone(bi.debi.luso),
              antiguedad |-> IF HasText(bi.debi.ant) /\ IntParses(bi.debi.ant.text)
                             THEN PyInt(IntVal(bi.debi.ant.text)) ELSE PyNone]
             @@ OptIf(HasText(bi.debi.sfc), "superficie_m2", FloatOrNone(bi.debi.sfc.text))
             @@ OptIf(HasText(bi.debi.cpt), "coef_participacion", FloatOrNone(bi.debi.cpt.text))
        ELSE NoKeys)
    @@ OptIf(bi.lcons.present /\ Unidades(bi.lcons.cons) # <<>>,
             "unidades_constructivas", Unidades(bi.lcons.cons))
    @@ OptIf(bi.lspr.present /\ Subparcelas(bi.lspr.spr) # <<>>,
             "subparcelas", Subparcelas(bi.lspr.spr))

\* the rcdnp children run through parse_inmueble_listado
Listado(n) == [i \in 1..n |-> "inmueble_listado"]

\* ------------------------------------------- buscar_inmueble_inteligente
\* -------------------------------------------------- buscar_numero_cercano
\* sorted(numeros_disponibles), as an insertion sort
RECURSIVE InsertarOrdenado(_, _)
InsertarOrdenado(ordenados, x) ==
    IF ordenados = <<>> THEN <<x>>
    ELSE LET ultimo == ordenados[Len(ordenados)] IN
         IF x < ultimo
         THEN Append(InsertarOrdenado(SubSeq(ordenados, 1, Len(ordenados) - 1), x), ultimo)
         ELSE Append(ordenados, x)
RECURSIVE sorted(_)
sorted(l) ==
    IF l = <<>> THEN <<>>
    ELSE InsertarOrdenado(sorted(SubSeq(l, 1, Len(l) - 1)), l[Len(l)])
\* line 50: diferencia < diferencia_minima, diferencia_minima being that of mejor
Mejora(numero_buscado_, num, mejor) ==
    Abs(numero_buscado_ - num) < Abs(numero_buscado_ - mejor)
\* lines 48-52: the loop over numeros_ordenados
RECURSIVE Recorrer(_, _, _)
Recorrer(numero_buscado_, numeros_ordenados, mejor) ==
    IF numeros_ordenados = <<>> THEN mejor
    ELSE Recorrer(numero_buscado_, Tail(numeros_ordenados),
                  IF Mejora(numero_buscado_, numeros_ordenados[1], mejor)
                  THEN numeros_ordenados[1] ELSE mejor)
buscar_numero_cercano(numero_buscado_, numeros_disponibles_) ==
    IF numeros_disponibles_ = <<>> THEN PyNone
    ELSE LET numeros_ordenados == sorted(numeros_disponibles_) IN
         PyInt(Recorrer(numero_buscado_, numeros_ordenados, numeros_ordenados[1]))

\* ------------------------------------------- buscar_inmueble_inteligente
NumeroNoValido ==
    [error |-> TRUE, mensaje |-> "El numero no es valido. Debe ser un numero entero."]
ErrorInesperado(e) == [error |-> TRUE, tipo |-> "error_inesperado", mensaje |-> e]
\* lines 579-585: "except Exception" of buscar_inmueble_inteligente
buscar_except(o) == IF o.pc = "raise" THEN Return(ErrorInesperado(o.e)) ELSE o
\* line 165 raising inside parse_inmueble_completo
ValueErrorInt == Raise("ValueError", "invalid literal for int() with base 10")

buscar_params(a, nb) ==
    [Provincia |-> a.provincia, Municipio |-> a.municipio,
     NombreVia |-> a.nombre_via, Numero |-> Str(nb)]
    @@ Opt("TipoVia", a.tipo_via) @@ Opt("Escalera", a.escalera)
    @@ Opt("Planta", a.planta) @@ Opt("Puerta", a.puerta)

consulta_params(a, nb) ==
    [Provincia |-> a.provincia, Municipio |-> a.municipio,
     NombreVia |-> a.nombre_via, Numero |-> Str(nb)]
    @@ Opt("TipoVia", a.tipo_via)

params_cercano(a, numero) ==
    [Provincia |-> a.provincia, Municipio |-> a.municipio,
     NombreVia |-> a.nombre_via, Numero |-> Str(numero)]
    @@ Opt("TipoVia", a.tipo_via)

\* line 463, on a description that is a str
EsNumeroNoExiste(des) ==
    \/ Contains(Upper(des), NUMERO_NO_EXISTE)
    \/ Contains(Upper(des), NUMERO_ACENTO_NO_EXISTE)

ResultadoExacto(nb, root) ==
    IF root.bico = "bi"
    THEN [tipo_respuesta |-> "inmueble_completo", numero_buscado |-> nb,
          numero_encontrado |-> nb, coincidencia |-> "exacta",
          inmueble |-> parse_inmueble_completo(root.bi)]
    ELSE [tipo_respuesta |-> "listado_inmuebles", numero_buscado |-> nb,
          numero_encontrado |-> nb, coincidencia |-> "exacta",
          total |-> root.lrcdnp, inmuebles |-> Listado(root.lrcdnp)]

\* from the first request's response to the return or the second request
buscar_paso1_try(a, nb, resp) ==
    IF RaisesHTTP(resp) \/ RaisesParse(resp) THEN RaiseDe(resp)
    ELSE LET root == resp.doc
             error_info == parse_xml_error(root)
         IN IF error_info = NoneInfo /\ root.bico = "bi" /\ AntiguedadRaises(root.bi)
            THEN ValueErrorInt
            ELSE IF error_info = NoneInfo /\ (root.bico = "bi" \/ root.lrcdnp >= 0)
            THEN Return(ResultadoExacto(nb, root))
            ELSE IF error_info = NoneInfo
            THEN Raise("AttributeError", "'NoneType' object has no attribute 'get'")
            ELSE IF error_info.descripcion.none
            THEN Raise("AttributeError", "'NoneType' object has no attribute 'upper'")
            ELSE IF EsNumeroNoExiste(error_info.descripcion.t)
            THEN Send("enum", Request("ConsultaNumero", consulta_params(a, nb)), <<>>)
            ELSE Return(error_info)
buscar_paso1(a, nb, resp) == buscar_except(buscar_paso1_try(a, nb, resp))

\* lines 489-505: the loop over the nump elements
RECURSIVE ExtraerNumeros(_)
ExtraerNumeros(numps) ==
    IF numps = <<>> THEN <<>>
    ELSE LET nump == numps[Len(numps)]
             antes == ExtraerNumeros(SubSeq(numps, 1, Len(numps) - 1))
         IN IF /\ nump.pnp.present /\ nump.pc1.present /\ nump.pc2.present
               /\ nump.pnp.hasText
               /\ IntParses(nump.pnp.text)
               /\ IntVal(nump.pnp.text) # 0
            THEN Append(antes, [numero |-> IntVal(nump.pnp.text),
                                referencia |-> TextOrEmpty(nump.pc1) \o TextOrEmpty(nump.pc2)])
            ELSE antes

\* list.sort(key=lambda x: abs(x["numero"] - numero_buscado)): a stable sort
RECURSIVE Insertar(_, _, _)
Insertar(ordenados, x, nb) ==
    IF ordenados = <<>> THEN <<x>>
    ELSE LET ultimo == ordenados[Len(ordenados)] IN
         IF Abs(x.numero - nb) < Abs(ultimo.numero - nb)
         THEN Append(Insertar(SubSeq(ordenados, 1, Len(ordenados) - 1), x, nb), ultimo)
         ELSE Append(ordenados, x)
RECURSIVE OrdenarPorDiferencia(_, _)
OrdenarPorDiferencia(l, nb) ==
    IF l = <<>> THEN <<>>
    ELSE Insertar(OrdenarPorDiferencia(SubSeq(l, 1, Len(l) - 1), nb), l[Len(l)], nb)

\* the failure without its suggestion
ErrorSinCercanos_SinSugerencia ==
    [error |-> TRUE, mensaje |-> "No se encontro el numero ni numeros cercanos"]
ErrorSinCercanos ==
    [error |-> TRUE,
     mensaje |-> "No se encontro el numero ni numeros cercanos",
     sugerencia |-> "Prueba con una busqueda por referencia catastral o verifica la direccion"]

\* from the second request's response to the return or the third request
buscar_paso2_try(a, nb, resp) ==
    IF RaisesHTTP(resp) \/ RaisesParse(resp) THEN RaiseDe(resp)
    ELSE LET numeros_disponibles == ExtraerNumeros(resp.doc.numps) IN
         IF numeros_disponibles # <<>>
         THEN LET ordenados == OrdenarPorDiferencia(numeros_disponibles, nb)
                  numero_cercano == ordenados[1]
              IN Send("relookup",
                      Request("Consulta_DNPLOC", params_cercano(a, numero_cercano.numero)),
                      ordenados)
         ELSE Return(ErrorSinCercanos)
buscar_paso2(a, nb, resp) == buscar_except(buscar_paso2_try(a, nb, resp))

\* numeros_disponibles[:5], the numbers
Otros(nd) == [i \in 1..(IF Len(nd) < MaxOtros THEN Len(nd) ELSE MaxOtros) |-> nd[i].numero]

\* the result with the requested number reported as the one found
ResultadoCercano_NumeroBuscado(nb, nd, root) ==
    IF root.bico = "bi"
    THEN [tipo_respuesta |-> "inmueble_completo", numero_buscado |-> nb,
          numero_encontrado |-> nb, coincidencia |-> "cercano",
          diferencia |-> Abs(nb - nd[1].numero),
          mensaje |-> "El numero no existe. Se encontro el numero mas cercano",
          otros_numeros_disponibles |-> Otros(nd),
          inmueble |-> parse_inmueble_completo(root.bi)]
    ELSE [tipo_respuesta |-> "listado_inmuebles", numero_buscado |-> nb,
          numero_encontrado |-> nb, coincidencia |-> "cercano",
          diferencia |-> Abs(nb - nd[1].numero),
          mensaje |-> "El numero no existe. Se encontro el numero mas cercano",
          otros_numeros_disponibles |-> Otros(nd),
          total |-> root.lrcdnp, inmuebles |-> Listado(root.lrcdnp)]
ResultadoCercano(nb, nd, root) ==
    IF root.bico = "bi"
    THEN [tipo_respuesta |-> "inmueble_completo", numero_buscado |-> nb,
          numero_encontrado |-> nd[1].numero, coincidencia |-> "cercano",
          diferencia |-> Abs(nb - nd[1].numero),
          mensaje |-> "El numero no existe. Se encontro el numero mas cercano",
          otros_numeros_disponibles |-> Otros(nd),
          inmueble |-> parse_inmueble_completo(root.bi)]
    ELSE [tipo_respuesta |-> "listado_inmuebles", numero_buscado |-> nb,
          numero_encontrado |-> nd[1].numero, coincidencia |-> "cercano",
          diferencia |-> Abs(nb - nd[1].numero),
          mensaje |-> "El numero no existe. Se encontro el numero mas cercano",
          otros_numeros_disponibles |-> Otros(nd),
          total |-> root.lrcdnp, inmuebles |-> Listado(root.lrcdnp)]

\* from the third request's response to the return
buscar_paso3_try(nb, nd, resp) ==
    IF RaisesHTTP(resp) \/ RaisesParse(resp) THEN RaiseDe(resp)
    ELSE IF resp.doc.bico = "bi" /\ AntiguedadRaises(resp.doc.bi) THEN ValueErrorInt
    ELSE IF resp.doc.bico = "bi" \/ resp.doc.lrcdnp >= 0
    THEN Return(ResultadoCercano(nb, nd, resp.doc))
    ELSE Return(ErrorSinCercanos)
buscar_paso3(nb, nd, resp) == buscar_except(buscar_paso3_try(nb, nd, resp))

\* ---------------------------------------------------- listar_numeros_via
listar_params(a) ==
    [Provincia |-> a.provincia, Municipio |-> a.municipio]
    @@ Opt("TipoVia", a.tipo_via) @@ Opt("NombreVia", a.nombre_via)

\* lines 641-652: the calle elements that have both cv and nv
RECURSIVE ExtraerVias(_)
ExtraerVias(calles) ==
    IF calles = <<>> THEN <<>>
    ELSE LET calle == calles[Len(calles)]
             antes == ExtraerVias(SubSeq(calles, 1, Len(calles) - 1))
         IN IF calle.cv.present /\ calle.nv.present
            THEN Append(antes, [codigo_via |-> ElemText(calle.cv),
                                tipo |-> IF calle.tv.present THEN ElemText(calle.tv) ELSE PyNone,
                                nombre |-> ElemText(calle.nv)])
            ELSE antes

\* lines 662-668: "except Exception" of listar_numeros_via
listar_except(o) ==
    IF o.pc = "raise" THEN Return([error |-> TRUE, mensaje |-> o.e]) ELSE o
listar_respuesta_try(resp) ==
    IF RaisesHTTP(resp) \/ RaisesParse(resp) THEN RaiseDe(resp)
    ELSE LET error_info == parse_xml_error(resp.doc)
             vias == ExtraerVias(resp.doc.calles)
         IN IF error_info # NoneInfo THEN Return(error_info)
            ELSE Return([tipo_respuesta |-> "lista_vias", total |-> Len(vias), vias |-> vias,
                         sugerencia |-> "Usa el codigo_via de la via deseada"])
listar_respuesta(resp) == listar_except(listar_respuesta_try(resp))

\* ------------------------------------------------ consulta_datos_catastro
\* a dict entry that is set only when the element was found
OptElem(key, e) == IF e.present THEN [k \in {key} |-> ElemText(e)] ELSE [k \in {} |-> PyNone]

\* one element of a candidate list, or nothing when the element is skipped
Candidato(e, tipo) ==
    CASE tipo = "provincias" ->
           IF e.cpine.present /\ e.np.present
           THEN <<[codigo_ine |-> ElemText(e.cpine), nombre |-> ElemText(e.np)]>>
           ELSE <<>>
      [] tipo = "municipios" ->
           IF e.nm.present
           THEN <<[nombre |-> ElemText(e.nm)]
                  @@ OptElem("codigo_catastro", e.cmc) @@ OptElem("codigo_ine", e.cm)>>
           ELSE <<>>
      [] tipo = "vias" ->
           IF e.nv.present
           THEN <<[nombre |-> ElemText(e.nv),
                   tipo |-> IF e.tv.present THEN ElemText(e.tv) ELSE PyNone]
                  @@ OptElem("codigo", e.cv)>>
           ELSE <<>>
      [] tipo = "numeros" ->
           IF e.pnp.present
           THEN <<[numero |-> ElemText(e.pnp)]
                  @@ (IF e.pc1.present /\ e.pc2.present
                      THEN [k \in {"referencia_catastral"} |->
                               PyStr(TextOrEmpty(e.pc1) \o TextOrEmpty(e.pc2))]
                      ELSE [k \in {} |-> PyNone])>>
           ELSE <<>>
RECURSIVE Candidatos(_, _)
Candidatos(els, tipo) ==
    IF els = <<>> THEN <<>>
    ELSE Candidatos(SubSeq(els, 1, Len(els) - 1), tipo) \o Candidato(els[Len(els)], tipo)

parse_candidatos(root, tipo) ==
    CASE tipo = "provincias" -> Candidatos(root.provs, tipo)
      [] tipo = "municipios" -> Candidatos(root.munis, tipo)
      [] tipo = "vias" -> Candidatos(root.calles, tipo)
      [] tipo = "numeros" -> Candidatos(root.numps, tipo)
      [] OTHER -> <<>>

\* the router with its first two branches swapped
Ruta_CodigosPrimero(a) ==
    IF Truthy(a.codigo_provincia) THEN "Consulta_DNPLOC_Codigos"
    ELSE IF Truthy(a.referencia_catastral) THEN "Consulta_DNPRC"
    ELSE "Consulta_DNPLOC"
\* lines 716-771: which service the call is routed to
Ruta(a) ==
    IF Truthy(a.referencia_catastral) THEN "Consulta_DNPRC"
    ELSE IF Truthy(a.codigo_provincia) THEN "Consulta_DNPLOC_Codigos"
    ELSE "Consulta_DNPLOC"

\* the check with "and" for "or": one of the two is enough
DenominacionValida_UnoBasta(provincia, municipio) == Truthy(provincia) \/ Truthy(municipio)
\* line 748, negated
DenominacionValida(provincia, municipio) == Truthy(provincia) /\ Truthy(municipio)

ruta_params(a) ==
    CASE Ruta(a) = "Consulta_DNPRC" ->
           [RefCat |-> a.referencia_catastral]
           @@ Opt("Provincia", a.provincia) @@ Opt("Municipio", a.municipio)
      [] Ruta(a) = "Consulta_DNPLOC_Codigos" ->
           [CodigoProvincia |-> a.codigo_provincia, Numero |-> a.numero]
           @@ Opt("CodigoMunicipio", a.codigo_municipio) @@ Opt("CodigoVia", a.codigo_via)
           @@ Opt("Bloque", a.bloque) @@ Opt("Escalera", a.escalera)
           @@ Opt("Planta", a.planta) @@ Opt("Puerta", a.puerta)
      [] OTHER ->
           [Provincia |-> a.provincia, Municipio |-> a.municipio]
           @@ Opt("Numero", a.numero) @@ Opt("TipoVia", a.tipo_via)
           @@ Opt("NombreVia", a.nombre_via) @@ Opt("Bloque", a.bloque)
           @@ Opt("Escalera", a.escalera) @@ Opt("Planta", a.planta)
           @@ Opt("Puerta", a.puerta)

FaltaProvinciaMunicipio ==
    [error |-> TRUE,
     mensaje |-> "Debe proporcionar provincia y municipio, o usar referencia_catastral"]

\* from the call to its validation error or its request
consulta_llamada(a) ==
    IF Ruta(a) = "Consulta_DNPLOC" /\ ~DenominacionValida(a.provincia, a.municipio)
    THEN Return(FaltaProvinciaMunicipio)
    ELSE Send("single", Request(Ruta(a), ruta_params(a)), <<>>)

\* a dict entry that is set only when the list is not empty
OptList(key, l) == IF l # <<>> THEN [k \in {key} |-> l] ELSE [k \in {} |-> l]

\* lines 795-822, on a description that is a str
ErrorConCandidatos(error_info, root) ==
    LET des == Upper(error_info.descripcion.t) IN
    IF Contains(des, PROVINCIA_NO_EXISTE)
    THEN error_info @@ OptList("candidatos_provincias", parse_candidatos(root, "provincias"))
    ELSE IF Contains(des, MUNICIPIO_NO_EXISTE)
    THEN error_info @@ OptList("candidatos_municipios", parse_candidatos(root, "municipios"))
    ELSE IF Contains(des, VIA_NO_EXISTE) \/ Contains(des, VIA_MOJIBAKE_NO_EXISTE)
    THEN error_info @@ OptList("candidatos_vias", parse_candidatos(root, "vias"))
    ELSE IF Contains(des, NUMERO_NO_EXISTE) \/ Contains(des, NUMERO_MOJIBAKE_NO_EXISTE)
    THEN IF parse_candidatos(root, "numeros") # <<>>
         THEN error_info @@ OptList("candidatos_numeros", parse_candidatos(root, "numeros"))
         ELSE error_info @@ [sugerencia |-> "El numero especificado no existe."]
    ELSE error_info

\* lines 824-855
ResultadoConsulta(root) ==
    IF root.bico = "bi"
    THEN [tipo_respuesta |-> "inmueble_completo", inmueble |-> parse_inmueble_completo(root.bi)]
    ELSE IF root.bico = "none" /\ root.lrcdnp >= 0
    THEN [tipo_respuesta |-> "listado_inmuebles", total |-> root.lrcdnp,
          inmuebles |-> Listado(root.lrcdnp)]
    ELSE [error |-> FALSE,
          mensaje |-> "No se encontraron resultados para los parametros proporcionados"]

\* the except clauses without the last one
consulta_except_SinGenerico(o) ==
    IF o.pc # "raise" THEN o
    ELSE IF o.exc = "HTTPError"
    THEN Return([error |-> TRUE, tipo |-> "http_error", mensaje |-> o.e])
    ELSE IF o.exc = "ParseError"
    THEN Return([error |-> TRUE, tipo |-> "parse_error",
                 mensaje |-> "Error parseando respuesta XML"])
    ELSE o
\* lines 857-882: the three except clauses of consulta_datos_catastro
consulta_except(o) ==
    IF o.pc # "raise" THEN o
    ELSE IF o.exc = "HTTPError"
    THEN Return([error |-> TRUE, tipo |-> "http_error", mensaje |-> o.e])
    ELSE IF o.exc = "ParseError"
    THEN Return([error |-> TRUE, tipo |-> "parse_error",
                 mensaje |-> "Error parseando respuesta XML"])
    ELSE Return(ErrorInesperado(o.e))

\* from the request's response to the return
consulta_respuesta_try(resp) ==
    IF RaisesHTTP(resp) \/ RaisesParse(resp) THEN RaiseDe(resp)
    ELSE LET error_info == parse_xml_error(resp.doc) IN
         IF error_info = NoneInfo
         THEN IF resp.doc.bico = "bi" /\ AntiguedadRaises(resp.doc.bi) THEN ValueErrorInt
              ELSE Return(ResultadoConsulta(resp.doc))
         ELSE IF error_info.descripcion.none
         THEN Raise("AttributeError", "'NoneType' object has no attribute 'upper'")
         ELSE Return(ErrorConCandidatos(error_info, resp.doc))
consulta_respuesta(resp) == consulta_except(consulta_respuesta_try(resp))

\* ----------------------------------------------------------- the inputs
NumeroTexts ==
    {Str(n) : n \in 0..MaxNum}
    \cup {<<"6">>, <<"0", "2">>, <<"-", "1">>, <<"a">>, <<"1", "a">>, <<>>}
\* tipo_via, escalera, planta, puerta
Localizaciones ==
    {<<None, None, None, None>>, <<"CL", "1", "", "B">>}

BuscarArgs ==
    {[provincia |-> "MADRID", municipio |-> "MADRID", nombre_via |-> "ALCALA",
      numero |-> n, tipo_via |-> l[1], escalera |-> l[2], planta |-> l[3], puerta |-> l[4]] :
        n \in NumeroTexts, l \in Localizaciones}

ListarArgs ==
    [provincia : {"MADRID", ""}, municipio : {"MADRID"},
     tipo_via : {None, "CL"}, nombre_via : {None, "", "ALCALA"}]

ConsultaArgs ==
    {[provincia |-> p, municipio |-> m, tipo_via |-> None, nombre_via |-> nv,
      numero |-> n, bloque |-> None, escalera |-> None, planta |-> None, puerta |-> pu,
      codigo_provincia |-> cp, codigo_municipio |-> None, codigo_via |-> None,
      referencia_catastral |-> rc] :
        p \in {None, "", "MADRID"}, m \in {None, "MADRID"}, nv \in {None, "ALCALA"},
        n \in {None, "6"}, pu \in {None, "B"}, cp \in {None, "", "28"},
        rc \in {None, "", "9872023VH5797S"}}

\* ------------------------------------------------------------ the state
VARIABLES
    op,                  \* the operation being called, "none" between calls
    pc,                  \* "idle", or where the call stands: waiting for the
                         \* answer to its "lookup", "enum", "relookup" or
                         \* "single" request, or "done" (it has returned)
    args,                \* the call's arguments
    numero_buscado,      \* buscar_inmueble_inteligente: int(numero)
    numeros_disponibles, \* buscar_inmueble_inteligente: the list, once sorted
    reqs,                \* the HTTP requests the call has sent, in order
    resps,               \* the answers it has received, in order
    result               \* what the call returned

vars == <<op, pc, args, numero_buscado, numeros_disponibles, reqs, resps, result>>

NoArgs == [none |-> TRUE]

Init ==
    /\ op = "none"
    /\ pc = "idle"
    /\ args = NoArgs
    /\ numero_buscado = 0
    /\ numeros_disponibles = <<>>
    /\ reqs = <<>>
    /\ resps = <<>>
    /\ result = Pending

\* the call goes on as the outcome o says
Sigue(o) ==
    /\ pc' = o.pc
    /\ reqs' = reqs \o o.req
    /\ result' = o.result

\* buscar_inmueble_inteligente(...) up to the first client.get
BuscarLlamada ==
    /\ pc = "idle"
    /\ \E a \in BuscarArgs :
        /\ op' = "buscar"
        /\ args' = a
        /\ IF IntParses(a.numero)
           THEN /\ numero_buscado' = IntVal(a.numero)
                /\ Sigue(Send("lookup",
                              Request("Consulta_DNPLOC", buscar_params(a, IntVal(a.numero))),
                              <<>>))
           ELSE /\ numero_buscado' = 0
                /\ Sigue(Return(NumeroNoValido))
    /\ UNCHANGED <<numeros_disponibles, resps>>

BuscarRespuesta1 ==
    /\ op = "buscar" /\ pc = "lookup"
    /\ \E resp \in LookupResponses :
        /\ resps' = Append(resps, resp)
        /\ Sigue(buscar_paso1(args, numero_buscado, resp))
    /\ UNCHANGED <<op, args, numero_buscado, numeros_disponibles>>

BuscarRespuesta2 ==
    /\ op = "buscar" /\ pc = "enum"
    /\ \E resp \in NumeroResponses :
        /\ resps' = Append(resps, resp)
        /\ Sigue(buscar_paso2(args, numero_buscado, resp))
        /\ numeros_disponibles' = buscar_paso2(args, numero_buscado, resp).numeros
    /\ UNCHANGED <<op, args, numero_buscado>>

BuscarRespuesta3 ==
    /\ op = "buscar" /\ pc = "relookup"
    /\ \E resp \in CercanoResponses :
        /\ resps' = Append(resps, resp)
        /\ Sigue(buscar_paso3(numero_buscado, numeros_disponibles, resp))
    /\ UNCHANGED <<op, args, numero_buscado, numeros_disponibles>>

ListarLlamada ==
    /\ pc = "idle"
    /\ \E a \in ListarArgs :
        /\ op' = "listar"
        /\ args' = a
        /\ Sigue(Send("single", Request("ConsultaVia", listar_params(a)), <<>>))
    /\ UNCHANGED <<numero_buscado, numeros_disponibles, resps>>

ListarRespuesta ==
    /\ op = "listar" /\ pc = "single"
    /\ \E resp \in ViaResponses :
        /\ resps' = Append(resps, resp)
        /\ Sigue(listar_respuesta(resp))
    /\ UNCHANGED <<op, args, numero_buscado, numeros_disponibles>>

ConsultaLlamada ==
    /\ pc = "idle"
    /\ \E a \in ConsultaArgs :
        /\ op' = "consulta"
        /\ args' = a
        /\ Sigue(consulta_llamada(a))
    /\ UNCHANGED <<numero_buscado, numeros_disponibles, resps>>

ConsultaRespuesta ==
    /\ op = "consulta" /\ pc = "single"
    /\ \E resp \in RecordResponses :
        /\ resps' = Append(resps, resp)
        /\ Sigue(consulta_respuesta(resp))
    /\ UNCHANGED <<op, args, numero_buscado, numeros_disponibles>>

\* the call has returned and nothing of it is kept: the next call starts afresh
Retorno ==
    /\ pc = "done"
    /\ op' = "none"
    /\ pc' = "idle"
    /\ args' = NoArgs
    /\ numero_buscado' = 0
    /\ numeros_disponibles' = <<>>
    /\ reqs' = <<>>
    /\ resps' = <<>>
    /\ result' = Pending

Next ==
    \/ BuscarLlamada
    \/ BuscarRespuesta1
    \/ BuscarRespuesta2
    \/ BuscarRespuesta3
    \/ ListarLlamada
    \/ ListarRespuesta
    \/ ConsultaLlamada
    \/ ConsultaRespuesta
    \/ Retorno

Spec == Init /\ [][Next]_vars

\* Every client.get runs under httpx.Client(timeout=30.0): the wait for an
\* answer ends, with the answer or with the timeout's exception.  The steps
\* that take an answer are therefore weakly fair; starting a call and
\* collecting its result are up to the caller and get no fairness.
Respuestas ==
    \/ BuscarRespuesta1 \/ BuscarRespuesta2 \/ BuscarRespuesta3
    \/ ListarRespuesta \/ ConsultaRespuesta
FairSpec == Spec /\ WF_vars(Respuestas)

\* buscar_numero_cercano on its own: it is called by none of the operations.
\* The call's arguments are drawn at the start; the one step applies the
\* function to them.
Valores == -1..MaxValor
Objetivos == -1..(MaxValor + 1)
InitCercano ==
    /\ op = "cercano"
    /\ pc = "idle"
    /\ args = NoArgs
    /\ numero_buscado \in Objetivos
    /\ numeros_disponibles \in SeqsUpTo(Valores, MaxLista)
    /\ reqs = <<>>
    /\ resps = <<>>
    /\ result = Pending
CercanoLlamada ==
    /\ op = "cercano" /\ pc = "idle"
    /\ pc' = "done"
    /\ result' = buscar_numero_cercano(numero_buscado, numeros_disponibles)
    /\ UNCHANGED <<op, args, numero_buscado, numeros_disponibles, reqs, resps>>
NextCercano == CercanoLlamada
SpecCercano == InitCercano /\ [][NextCercano]_vars

TypeOK ==
    /\ op \in {"none", "buscar", "listar", "consulta"}
    /\ pc \in {"idle", "lookup", "enum", "relookup", "single", "done"}
    /\ Len(resps) <= Len(reqs)

\* ------------------------------------------------------------ properties
\* what the properties say of an answer, stated on the answer itself
NetworkFailure(resp) == resp.kind = "timeout" \/ resp.kind = "status"
ServiceError(resp) == resp.kind = "ok" /\ resp.doc.err.present
HasRecord(resp) ==
    resp.kind = "ok" /\ ~resp.doc.err.present
    /\ (resp.doc.bico = "bi" \/ resp.doc.lrcdnp >= 0)
\* the description says, in any letter case, that the number does not exist
NumberMissing(resp) ==
    /\ ServiceError(resp)
    /\ resp.doc.err.des.hasText
    /\ \/ Contains(Upper(resp.doc.err.des.text), <<"NUMERO", "NO", "EXISTE">>)
       \/ Contains(Upper(resp.doc.err.des.text), <<"NU'MERO", "NO", "EXISTE">>)
\* the result is the service's error: its code and its description
\* ("UNKNOWN" and "Error desconocido" standing for a missing element)
ReturnsError(r, resp) ==
    /\ {"error", "codigo", "descripcion"} \subseteq DOMAIN r
    /\ r.error = TRUE
    /\ r.codigo = IF resp.doc.err.cod.present THEN ElemText(resp.doc.err.cod)
                  ELSE PyStr(<<"UNKNOWN">>)
    /\ r.descripcion = IF resp.doc.err.des.present THEN ElemText(resp.doc.err.des)
                       ELSE PyStr(<<"Error", "desconocido">>)
Endpoints == [i \in 1..Len(reqs) |-> reqs[i].endpoint]
IsPrefix(s, t) == Len(s) <= Len(t) /\ \A i \in 1..Len(s) : s[i] = t[i]

\* C1: invalid input never reaches the network.  A call of
\* buscar_inmueble_inteligente whose numero does not parse as an integer, and
\* a call of consulta_datos_catastro with no cadastral reference, no province
\* code and an empty or missing provincia or municipio, has returned a
\* validation error and has sent no HTTP request.
C1_InvalidInputNoRequest ==
    /\ (op = "buscar" /\ ~IntParses(args.numero)) =>
         /\ pc = "done" /\ reqs = <<>>
         /\ result = NumeroNoValido
    /\ (/\ op = "consulta"
        /\ args.referencia_catastral \in {None, ""}
        /\ args.codigo_provincia \in {None, ""}
        /\ (args.provincia \in {None, ""} \/ args.municipio \in {None, ""})) =>
         /\ pc = "done" /\ reqs = <<>>
         /\ result = FaltaProvinciaMunicipio
C1_Witness ==
    /\ op = "consulta" /\ pc = "done" /\ reqs = <<>>
    /\ args.referencia_catastral = "" /\ args.codigo_provincia = None
    /\ args.provincia = "MADRID" /\ args.municipio = None

\* C2: the router of consulta_datos_catastro picks exactly one endpoint per
\* call, reference before code before denomination: with a reference the one
\* request goes to Consulta_DNPRC whatever else is set, else with a province
\* code to Consulta_DNPLOC_Codigos, else to Consulta_DNPLOC; no call sends a
\* request to more than one endpoint.
C2_RouterPriority ==
    op = "consulta" =>
        /\ Len(reqs) <= 1
        /\ Truthy(args.referencia_catastral) =>
             Endpoints = <<"Consulta_DNPRC">>
        /\ (~Truthy(args.referencia_catastral) /\ Truthy(args.codigo_provincia)) =>
             Endpoints = <<"Consulta_DNPLOC_Codigos">>
        /\ (~Truthy(args.referencia_catastral) /\ ~Truthy(args.codigo_provincia)) =>
             IsPrefix(Endpoints, <<"Consulta_DNPLOC">>)
C2_Witness ==
    /\ op = "consulta" /\ pc = "done" /\ Len(resps) = 1
    /\ Truthy(args.referencia_catastral) /\ Truthy(args.codigo_provincia)
    /\ Truthy(args.provincia)

\* C3: the fallback is triggered only by a "number does not exist" service
\* error.  buscar_inmueble_inteligente sends the ConsultaNumero request only
\* after its first lookup returned a service error classified number-missing;
\* on every other service error, and in listar_numeros_via and
\* consulta_datos_catastro on every service error, the call returns that error
\* and sends no further request.
C3_FallbackOnlyOnNumberMissing ==
    /\ (op = "buscar" /\ Len(reqs) >= 2) =>
         reqs[2].endpoint = "ConsultaNumero" /\ NumberMissing(resps[1])
    /\ (op = "buscar" /\ Len(resps) >= 1 /\ ServiceError(resps[1])
        /\ ~NumberMissing(resps[1])) =>
         pc = "done" /\ Len(reqs) = 1 /\ ReturnsError(result, resps[1])
    /\ (op \in {"listar", "consulta"} /\ Len(resps) >= 1 /\ ServiceError(resps[1])) =>
         pc = "done" /\ Len(reqs) = 1 /\ ReturnsError(result, resps[1])

\* C4: the round trips of a call are bounded.  buscar_inmueble_inteligente
\* sends at most three requests, in the order lookup, enumeration, re-lookup;
\* consulta_datos_catastro and listar_numeros_via send at most one; a network
\* failure (timeout, connection error, non-2xx) on a request ends the call
\* with no further request.
C4_BoundedRoundTrips ==
    /\ op = "buscar" =>
         IsPrefix(Endpoints, <<"Consulta_DNPLOC", "ConsultaNumero", "Consulta_DNPLOC">>)
    /\ op \in {"listar", "consulta"} => Len(reqs) <= 1
    /\ \A i \in 1..Len(resps) :
         NetworkFailure(resps[i]) =>
            /\ pc = "done" /\ Len(reqs) = i
            /\ "error" \in DOMAIN result /\ result.error = TRUE
C4_Witness ==
    /\ op = "buscar" /\ pc = "done" /\ Len(reqs) = 3
    /\ resps[3].kind = "status"

\* the entries of a ConsultaNumero answer that are a (number, reference)
\* pair, and their numbers in the order of the answer
EsEntrada(nump) ==
    /\ nump.pnp.hasText /\ IntParses(nump.pnp.text)
    /\ nump.pc1.present /\ nump.pc2.present
RECURSIVE NumerosEnumerados(_)
NumerosEnumerados(numps) ==
    IF numps = <<>> THEN <<>>
    ELSE (IF EsEntrada(numps[1]) THEN <<IntVal(numps[1].pnp.text)>> ELSE <<>>)
         \o NumerosEnumerados(Tail(numps))
\* s can be obtained from t by deleting elements
RECURSIVE IsSubsequence(_, _)
IsSubsequence(s, t) ==
    IF s = <<>> THEN TRUE
    ELSE IF t = <<>> THEN FALSE
    ELSE IF s[1] = t[1] THEN IsSubsequence(Tail(s), Tail(t))
    ELSE IsSubsequence(s, Tail(t))
Requested == IntVal(args.numero)
Requeried == IntVal(reqs[3].params.Numero)

\* C5: in the fallback of buscar_inmueble_inteligente the resolved number is
\* one the enumeration returned, at minimal distance from the requested number
\* over all the (number, reference) entries returned, and the first of them in
\* the enumeration's order among those at that distance.
C5_NearestOfEnumerated ==
    (op = "buscar" /\ Len(reqs) = 3) =>
        LET nums == NumerosEnumerados(resps[2].doc.numps) IN
        \E i \in 1..Len(nums) :
            /\ nums[i] = Requeried
            /\ \A j \in 1..Len(nums) :
                 Abs(nums[i] - Requested) <= Abs(nums[j] - Requested)
            /\ \A j \in 1..(i - 1) :
                 Abs(nums[i] - Requested) < Abs(nums[j] - Requested)

\* C6: a success result of buscar_inmueble_inteligente carries consistent
\* provenance.  When the first lookup finds the record the result says
\* "exacta" and numero_encontrado = numero_buscado; a result of the fallback
\* says "cercano", numero_buscado is the number requested, numero_encontrado
\* the number re-queried, and diferencia their absolute difference.
C6_Provenance ==
    /\ (op = "buscar" /\ Len(resps) >= 1 /\ HasRecord(resps[1])) =>
         /\ pc = "done" /\ Len(reqs) = 1
         /\ "tipo_respuesta" \in DOMAIN result => result.coincidencia = "exacta"
    /\ (op = "buscar" /\ pc = "done" /\ "tipo_respuesta" \in DOMAIN result) =>
         /\ result.numero_buscado = Requested
         /\ Len(reqs) \in {1, 3}
         /\ Len(reqs) = 1 =>
              /\ result.coincidencia = "exacta"
              /\ result.numero_encontrado = result.numero_buscado
         /\ Len(reqs) = 3 =>
              /\ result.coincidencia = "cercano"
              /\ result.numero_encontrado = Requeried
              /\ result.diferencia = Abs(result.numero_buscado - result.numero_encontrado)
C6_Witness ==
    /\ op = "buscar" /\ pc = "done" /\ "tipo_respuesta" \in DOMAIN result
    /\ result.coincidencia = "cercano"
    /\ result.numero_encontrado > result.numero_buscado
    /\ args.numero = <<"0", "2">>

\* C7: in a nearest-match result the list otros_numeros_disponibles holds at
\* most five numbers of the candidate set, none of them the resolved number,
\* in the order of the enumeration's answer.
C7_Alternatives ==
    (op = "buscar" /\ pc = "done" /\ "otros_numeros_disponibles" \in DOMAIN result) =>
        LET otros == result.otros_numeros_disponibles IN
        /\ Len(otros) <= 5
        /\ \A i \in 1..Len(otros) : otros[i] # result.numero_encontrado
        /\ IsSubsequence(otros, NumerosEnumerados(resps[2].doc.numps))

\* C8: the re-lookup of the fallback changes only the number: its parameters
\* are those of the first lookup (province, municipality, street name and type,
\* stair, floor, door) with Numero replaced by the resolved number.
C8_RelookupKeepsFields ==
    (op = "buscar" /\ Len(reqs) = 3) =>
        /\ reqs[3].endpoint = reqs[1].endpoint
        /\ DOMAIN reqs[3].params = DOMAIN reqs[1].params
        /\ \A k \in (DOMAIN reqs[1].params \cap DOMAIN reqs[3].params) \ {"Numero"} :
             reqs[3].params[k] = reqs[1].params[k]
        /\ reqs[3].params.Numero = Str(numeros_disponibles[1].numero)

\* C9: when the re-lookup of the fallback returns a service error, the call
\* returns that error, with the code and the description the service sent.
C9_RelookupErrorPropagates ==
    (op = "buscar" /\ Len(resps) = 3 /\ ServiceError(resps[3])) =>
        pc = "done" /\ ReturnsError(result, resps[3])

\* C10: when the first lookup reports number-missing and the enumeration
\* yields no candidate, the call returns a failure with a suggestion and no
\* candidate list, and sends no re-lookup.
C10_EmptyEnumeration ==
    (/\ op = "buscar" /\ Len(resps) >= 2 /\ resps[2].kind = "ok"
     /\ ExtraerNumeros(resps[2].doc.numps) = <<>>) =>
        /\ NumberMissing(resps[1])
        /\ pc = "done" /\ Len(reqs) = 2
        /\ "error" \in DOMAIN result /\ result.error = TRUE
        /\ "sugerencia" \in DOMAIN result
        /\ \A k \in DOMAIN result :
             k \notin {"candidatos", "candidatos_numeros", "candidatos_vias",
                       "candidatos_municipios", "candidatos_provincias",
                       "otros_numeros_disponibles"}
C10_Witness ==
    /\ op = "buscar" /\ pc = "done" /\ Len(resps) = 2 /\ resps[2].kind = "ok"
    /\ resps[2].doc.numps = <<NumpLetra, NumpSinRef(1)>>
    /\ "sugerencia" \in DOMAIN result

\* the kind an error result is reported with: its "tipo" when it has one, a
\* service error when it carries the service's code, no kind otherwise
ErrorKind(r) ==
    IF "tipo" \in DOMAIN r THEN r.tipo
    ELSE IF "codigo" \in DOMAIN r THEN "service_error"
    ELSE "sin_tipo"
\* what the call that has just returned on its first answer returns when that
\* answer is resp instead
PrimeraRespuesta(resp) ==
    CASE op = "buscar" -> buscar_paso1(args, numero_buscado, resp).result
      [] op = "listar" -> listar_respuesta(resp).result
      [] OTHER -> consulta_respuesta(resp).result
ServiceErrorDoc == Ok([EmptyDoc EXCEPT !.err = ErrDe(<<"LA", "PROVINCIA", "NO", "EXISTE">>)])

\* C11: in each of the three operations, the result returned for a non-2xx
\* HTTP response has an error kind different from the kind returned for a
\* malformed-XML answer and from the kind returned for a service error.
C11_DistinctErrorKinds ==
    (pc = "done" /\ Len(resps) = 1 /\ resps[1].kind = "status") =>
        /\ ErrorKind(result) # ErrorKind(PrimeraRespuesta(Malformed))
        /\ ErrorKind(result) # ErrorKind(PrimeraRespuesta(ServiceErrorDoc))
        /\ ErrorKind(PrimeraRespuesta(Malformed)) # ErrorKind(PrimeraRespuesta(ServiceErrorDoc))

\* a fully-formed result: a success (it has "tipo_respuesta") or one error
\* (it has "error" and a message or the service's description), never both
Structured(r) ==
    /\ r # Pending
    /\ ("tipo_respuesta" \in DOMAIN r) # ("error" \in DOMAIN r)
    /\ "error" \in DOMAIN r => ("mensaje" \in DOMAIN r \/ "descripcion" \in DOMAIN r)
    /\ "tipo_respuesta" \in DOMAIN r =>
         \E k \in {"inmueble", "inmuebles", "vias"} : k \in DOMAIN r
C12_OneResult ==
    /\ pc # "raise"
    /\ pc = "done" => Structured(result)
    /\ pc # "done" => result = Pending
\* C12: every call of each of the three operations terminates and returns
\* exactly one structured result, a success or a single error, whatever the
\* input and whatever the service does (network failure, malformed XML,
\* service error, unexpected record shape); no exception escapes the call.
C12_TerminatesWithOneResult ==
    /\ [] C12_OneResult
    /\ (pc # "idle") ~> (pc = "done")
\* a call that ended on an exception none of its handlers names
C12_Witness ==
    /\ pc = "done" /\ op = "consulta" /\ Len(resps) = 1
    /\ resps[1].kind = "ok" /\ resps[1].doc.bico = "bi" /\ AntiguedadRaises(resps[1].doc.bi)
    /\ Structured(result) /\ ErrorKind(result) = "error_inesperado"

\* the answer is a full record: well-formed XML, no error element, a bi element
FullRecord(resp) == resp.kind = "ok" /\ ~resp.doc.err.present /\ resp.doc.bico = "bi"
\* the element has a text and the text is not a number
MalformedDecimal(e) == HasText(e) /\ ~FloatParses(ReplaceComma(e.text))
MalformedYear(e) == HasText(e) /\ ~IntParses(e.text)
\* the key is in the dict with the absent value
AbsentValue(d, k) == k \in DOMAIN d /\ d[k] = PyNone
\* the operation answered the full record with the Success result
ReturnsRecord(r) ==
    /\ "tipo_respuesta" \in DOMAIN r /\ r.tipo_respuesta = "inmueble_completo"
    /\ "inmueble" \in DOMAIN r
NumericFieldsDegrade(bi, inm) ==
    /\ (bi.debi.present /\ MalformedDecimal(bi.debi.sfc)) => AbsentValue(inm, "superficie_m2")
    /\ (bi.debi.present /\ MalformedDecimal(bi.debi.cpt)) => AbsentValue(inm, "coef_participacion")
    /\ (bi.debi.present /\ MalformedYear(bi.debi.ant)) => AbsentValue(inm, "antiguedad")
    /\ (bi.lcons.present /\ Len(bi.lcons.cons) = 1 /\ MalformedDecimal(bi.lcons.cons[1].stl)) =>
         /\ "unidades_constructivas" \in DOMAIN inm
         /\ AbsentValue(inm.unidades_constructivas[1], "superficie_m2")
    /\ (bi.lspr.present /\ Len(bi.lspr.spr) = 1 /\ MalformedDecimal(bi.lspr.spr[1].ssp)) =>
         /\ "subparcelas" \in DOMAIN inm
         /\ AbsentValue(inm.subparcelas[1], "superficie_m2")
\* the fields that are not numeric are extracted
OtherFieldsExtracted(bi, inm) ==
    /\ bi.rc.present => "referencia_catastral" \in DOMAIN inm
    /\ bi.cn.present => "tipo" \in DOMAIN inm /\ inm.tipo = ElemText(bi.cn)
    /\ bi.dt.present => "direccion" \in DOMAIN inm
    /\ bi.debi.present => "uso" \in DOMAIN inm /\ inm.uso = TextOrNone(bi.debi.luso)

\* C13: a malformed numeric field never makes record extraction fail.  For
\* every full-record answer and each numeric field of the record (area,
\* participation coefficient, build year, construction-unit area, sub-parcel
\* area), a text that is not a valid number is reported as an absent value and
\* the operation still returns the Success result with the other fields.
C13_MalformedNumericDegrades ==
    (/\ pc = "done" /\ op \in {"buscar", "consulta"}
     /\ Len(resps) = 1 /\ FullRecord(resps[1])) =>
        /\ ReturnsRecord(result)
        /\ NumericFieldsDegrade(resps[1].doc.bi, result.inmueble)
        /\ OtherFieldsExtracted(resps[1].doc.bi, result.inmueble)
\* the same for the fields that are read as decimals: it holds
C13_DecimalsDegrade ==
    (/\ pc = "done" /\ op \in {"buscar", "consulta"}
     /\ Len(resps) = 1 /\ FullRecord(resps[1])
     /\ ~MalformedYear(resps[1].doc.bi.debi.ant)) =>
        /\ ReturnsRecord(result)
        /\ NumericFieldsDegrade(resps[1].doc.bi, result.inmueble)
        /\ OtherFieldsExtracted(resps[1].doc.bi, result.inmueble)

\* what a service error is about, read off its description in any letter case
\* and with or without the accents of the Spanish words, tried in the order
\* province, municipality, street, number
Clase(resp) ==
    LET des == Upper(resp.doc.err.des.text) IN
    IF Contains(des, <<"PROVINCIA", "NO", "EXISTE">>) THEN "provincias"
    ELSE IF Contains(des, <<"MUNICIPIO", "NO", "EXISTE">>) THEN "municipios"
    ELSE IF Contains(des, <<"VIA", "NO", "EXISTE">>) \/ Contains(des, <<"VI'A", "NO", "EXISTE">>)
    THEN "vias"
    ELSE IF Contains(des, <<"NUMERO", "NO", "EXISTE">>)
            \/ Contains(des, <<"NU'MERO", "NO", "EXISTE">>)
    THEN "numeros"
    ELSE "otro"
\* the same, reading only the unaccented spellings
ClaseSinAcentos(resp) ==
    LET des == Upper(resp.doc.err.des.text) IN
    IF Contains(des, <<"PROVINCIA", "NO", "EXISTE">>) THEN "provincias"
    ELSE IF Contains(des, <<"MUNICIPIO", "NO", "EXISTE">>) THEN "municipios"
    ELSE IF Contains(des, <<"VIA", "NO", "EXISTE">>) THEN "vias"
    ELSE IF Contains(des, <<"NUMERO", "NO", "EXISTE">>) THEN "numeros"
    ELSE "otro"
CandidateKinds == {"provincias", "municipios", "vias", "numeros"}
CandidateKey(kind) ==
    CASE kind = "provincias" -> "candidatos_provincias"
      [] kind = "municipios" -> "candidatos_municipios"
      [] kind = "vias" -> "candidatos_vias"
      [] kind = "numeros" -> "candidatos_numeros"
\* the result carries the list of the class, and only that list, exactly when
\* the answer has a candidate entry of the class
ListsMatch(r, resp, clase) ==
    \A kind \in CandidateKinds :
        /\ CandidateKey(kind) \in DOMAIN r <=>
              (kind = clase /\ parse_candidatos(resp.doc, kind) # <<>>)
        /\ CandidateKey(kind) \in DOMAIN r =>
              r[CandidateKey(kind)] = parse_candidatos(resp.doc, kind)
\* a service error of consulta_datos_catastro whose description has a text
ConsultaServiceError ==
    /\ op = "consulta" /\ pc = "done" /\ Len(resps) = 1
    /\ ServiceError(resps[1]) /\ resps[1].doc.err.des.hasText

\* C14: in consulta_datos_catastro a service-error result carries at most one
\* candidate list, of the kind of the classified error (province,
\* municipality, street, number, tried in that order, first match wins); the
\* list is attached exactly when the answer contains a candidate entry of that
\* kind, and the error's code and description are returned unchanged.
C14_CandidateLists ==
    ConsultaServiceError =>
        /\ ReturnsError(result, resps[1])
        /\ ListsMatch(result, resps[1], Clase(resps[1]))
\* the same for the descriptions spelled without accents: it holds
C14_SinAcentos ==
    (ConsultaServiceError /\ Clase(resps[1]) = ClaseSinAcentos(resps[1])) =>
        /\ ReturnsError(result, resps[1])
        /\ ListsMatch(result, resps[1], Clase(resps[1]))

\* a Python value that is a str
IsText(v) == v.none = FALSE

\* C15: for every answer that contains an error element, one whose code or
\* description element is missing or has no text included, parse_xml_error
\* returns an error whose code and description are both text (the fixed
\* sentinel when absent), and buscar_inmueble_inteligente and
\* consulta_datos_catastro return a service failure for it, not an
\* unexpected-error result; an answer without the error element gives no error.
C15_ErrorElementParsed ==
    (op \in {"buscar", "consulta"} /\ Len(resps) >= 1 /\ resps[1].kind = "ok") =>
        LET info == parse_xml_error(resps[1].doc) IN
        /\ ServiceError(resps[1]) =>
             /\ info # NoneInfo /\ info.error = TRUE
             /\ IsText(info.codigo) /\ IsText(info.descripcion)
             /\ (pc = "done" /\ Len(resps) = 1) => ErrorKind(result) = "service_error"
        /\ ~resps[1].doc.err.present => info = NoneInfo
\* the same for the error elements whose cod and des both have a text: it holds
C15_ConTexto ==
    (/\ op \in {"buscar", "consulta"} /\ Len(resps) >= 1 /\ resps[1].kind = "ok"
     /\ (resps[1].doc.err.cod.present => resps[1].doc.err.cod.hasText)
     /\ (resps[1].doc.err.des.present => resps[1].doc.err.des.hasText)) =>
        LET info == parse_xml_error(resps[1].doc) IN
        /\ ServiceError(resps[1]) =>
             /\ info # NoneInfo /\ info.error = TRUE
             /\ IsText(info.codigo) /\ IsText(info.descripcion)
             /\ (pc = "done" /\ Len(resps) = 1) => ErrorKind(result) = "service_error"
        /\ ~resps[1].doc.err.present => info = NoneInfo

\* the part is missing: the element is absent or has no text
Missing(e) == ~e.present \/ ~e.hasText \/ e.text = <<>>
PartText(e) == IF Missing(e) THEN <<>> ELSE e.text
\* pc1, pc2, then car, cc1, cc2, each when present
RefConcat(rc) ==
    PartText(rc.pc1) \o PartText(rc.pc2) \o PartText(rc.car)
    \o PartText(rc.cc1) \o PartText(rc.cc2)
\* a full record with an rc element was answered with the Success result
RecordWithRc ==
    /\ pc = "done" /\ op \in {"buscar", "consulta"} /\ Len(resps) = 1
    /\ FullRecord(resps[1]) /\ resps[1].doc.bi.rc.present
    /\ ReturnsRecord(result)

\* C16: the cadastral reference produced by parse_inmueble_completo is empty
\* or complete, never partial.  When both parcel parts pc1 and pc2 are there
\* it is the concatenation of pc1, pc2, then car, cc1, cc2 for those that are
\* present; when pc1 or pc2 is missing (absent or without text) it is the
\* empty string.
C16_ReferenceEmptyOrComplete ==
    RecordWithRc =>
        LET rc == resps[1].doc.bi.rc
            ref == result.inmueble.referencia_catastral
        IN IF Missing(rc.pc1) \/ Missing(rc.pc2) THEN ref = <<>>
           ELSE ref = RefConcat(rc)
\* the same with "missing" read as "the element is absent": it holds
C16_AbsentParts ==
    (RecordWithRc /\ (resps[1].doc.bi.rc.pc1.present => ~Missing(resps[1].doc.bi.rc.pc1))
                  /\ (resps[1].doc.bi.rc.pc2.present => ~Missing(resps[1].doc.bi.rc.pc2))) =>
        LET rc == resps[1].doc.bi.rc
            ref == result.inmueble.referencia_catastral
        IN IF Missing(rc.pc1) \/ Missing(rc.pc2) THEN ref = <<>>
           ELSE ref = RefConcat(rc)

\* well-formed XML with neither an error element nor a property record
NoErrorNoRecord(resp) ==
    /\ resp.kind = "ok" /\ ~resp.doc.err.present
    /\ resp.doc.bico # "bi" /\ resp.doc.lrcdnp < 0
\* the "no results" outcome: not an error, not a record, a message
NoResults(r) ==
    /\ "error" \in DOMAIN r /\ r.error = FALSE
    /\ "mensaje" \in DOMAIN r
    /\ "tipo_respuesta" \notin DOMAIN r

\* C17: when the first lookup of buscar_inmueble_inteligente returns
\* well-formed XML with neither an error element nor a property record, the
\* call returns the non-error "no results" outcome, the outcome
\* consulta_datos_catastro returns for that answer, and sends no further
\* request.
C17_NoRecordNoResults ==
    (op = "buscar" /\ Len(resps) >= 1 /\ NoErrorNoRecord(resps[1])) =>
        /\ pc = "done" /\ Len(reqs) = 1
        /\ NoResults(result)
        /\ NoResults(consulta_respuesta(resps[1]).result)
\* consulta_datos_catastro does return "no results" for such an answer
C17_Consulta ==
    (op = "consulta" /\ Len(resps) >= 1 /\ NoErrorNoRecord(resps[1])) =>
        pc = "done" /\ Len(reqs) = 1 /\ NoResults(result)

\* the distance of a member from the target, and the least distance in the list
Distancia(x) == Abs(numero_buscado - x)
MinDistancia == CHOOSE d \in {Distancia(numeros_disponibles[i]) : i \in DOMAIN numeros_disponibles} :
                    \A i \in DOMAIN numeros_disponibles : d <= Distancia(numeros_disponibles[i])
\* the positions of the members at the least distance
Nearest == {i \in DOMAIN numeros_disponibles : Distancia(numeros_disponibles[i]) = MinDistancia}
CercanoDone == op = "cercano" /\ pc = "done"
\* the result is a member of the list at minimal distance from the target;
\* for the empty list it is no value
NearestMember ==
    IF numeros_disponibles = <<>> THEN result = PyNone
    ELSE /\ result.none = FALSE
         /\ \E i \in Nearest : numeros_disponibles[i] = result.n
         /\ (\E i \in DOMAIN numeros_disponibles : numeros_disponibles[i] = numero_buscado) =>
               result.n = numero_buscado

\* C18 as stated: buscar_numero_cercano returns a member of the list at
\* minimal distance from the target (the target itself when the list contains
\* it), among members equidistant from the target the one appearing first in
\* the input list's order, and no value for the empty list.
C18_FirstInInputOrder ==
    CercanoDone =>
        /\ NearestMember
        /\ numeros_disponibles # <<>> =>
             result.n = numeros_disponibles[CHOOSE i \in Nearest : \A j \in Nearest : i <= j]
\* what the function does return: a nearest member, for the empty list no
\* value, and among members equidistant from the target the smallest one
\* (the list is sorted before the scan): it holds
C18_SmallestOfNearest ==
    CercanoDone =>
        /\ NearestMember
        /\ numeros_disponibles # <<>> =>
             \A i \in Nearest : result.n <= numeros_disponibles[i]

====
